---- MODULE Spec2Model ----
(***************************************************************************)
(* Model of json_comparison: the per-level node counter                    *)
(* (parse_json_structure), the tree differ (compare_json_structures), the  *)
(* summarizer (summarize_comparison), the loader (read_json_from_file) and *)
(* the driver (main of compare_json_files.py).                             *)
(*                                                                         *)
(* Python values are tagged records.  A Python str that the code builds    *)
(* or inspects character by character (object keys, paths) is a sequence   *)
(* of one-character strings; a str that is only compared is a TLA+ string. *)
(***************************************************************************)
EXTENDS Naturals, Integers, Sequences, FiniteSets, TLC

VARIABLES pc, file1, file2, json_data1, json_data2, structure1, structure2,
          differences, writes, summary, log, outcome

vars == <<pc, file1, file2, json_data1, json_data2, structure1, structure2,
          differences, writes, summary, log, outcome>>

(***************************************************************************)
(* Bounds of the model.                                                    *)
(***************************************************************************)
\* largest number of nodes of a generated Document
MaxNodes == 4
\* largest number of nodes of the Documents that are paired freely with one
\* another (differ) or stored in the files read by main
MaxSmallNodes == 2
\* largest depth appearing in a level sequence handed to the summarizer
MaxLevel == 3
\* largest count appearing in a level sequence handed to the summarizer
MaxCount == 2

(***************************************************************************)
(* Python / JSON values.                                                   *)
(***************************************************************************)
\* Python None; ijson yields it for JSON null
None == [t |-> "None"]
\* a local name that has not been bound yet
Unbound == [t |-> "unbound"]
JBool(b) == [t |-> "bool", b |-> b]
JNum(n) == [t |-> "num", n |-> n]
JStr(s) == [t |-> "str", s |-> s]
JObj(kv) == [t |-> "obj", kv |-> kv]
JArr(items) == [t |-> "arr", items |-> items]

IsDict(v) == v.t = "obj"
IsList(v) == v.t = "arr"

\* the empty mapping, used for the kv of {}
EmptyMap == [k \in {} |-> None]

\* object keys of the generated Documents: "", "a", "a/a"
KeySeq == << <<>>, <<"a">>, <<"a", "/", "a">> >>
Keys == {KeySeq[i] : i \in 1..Len(KeySeq)}

\* scalar leaves of the generated Documents
Scalars == {JBool(TRUE), JNum(1), JStr("Key not found")}

\* strictly increasing index sequences of length m into KeySeq
IncSeqs(m) ==
    {s \in [1..m -> 1..Len(KeySeq)] : \A i, j \in 1..m : i < j => s[i] < s[j]}

\* the object whose keys are KeySeq[s[1]], ..., KeySeq[s[m]] with values l
MkObj(s, l) ==
    JObj([k \in {KeySeq[s[i]] : i \in 1..Len(l)} |->
             l[CHOOSE i \in 1..Len(l) : KeySeq[s[i]] = k]])

RECURSIVE DocsOfSize(_), ListsOfTotal(_)
\* all Documents over Scalars and Keys with exactly n nodes
DocsOfSize(n) ==
    IF n = 1
    THEN Scalars \cup {JObj(EmptyMap), JArr(<<>>)}
    ELSE LET ls == ListsOfTotal(n - 1)
         IN  {JArr(l) : l \in ls}
             \cup UNION {{MkObj(s, l) : s \in IncSeqs(Len(l))} : l \in ls}
\* all non-empty sequences of Documents with n nodes in total (n >= 1)
ListsOfTotal(n) ==
    UNION {{<<d>> : d \in DocsOfSize(k)} : k \in {n}}
    \cup UNION {UNION {{<<d>> \o rest : d \in DocsOfSize(k)}
                         : rest \in ListsOfTotal(n - k)} : k \in 1..(n - 1)}

DocsUpTo(n) == UNION {DocsOfSize(k) : k \in 1..n}
Docs == DocsUpTo(MaxNodes)

(***************************************************************************)
(* dict helpers: a dict that the code fills is a sequence of items in      *)
(* insertion order, as CPython keeps it.                                   *)
(***************************************************************************)
\* positions of key k in the item sequence d (at most one)
DictPos(d, k) == {i \in 1..Len(d) : d[i][1] = k}
\* d[k] = v
DictSet(d, k, v) ==
    IF DictPos(d, k) = {}
    THEN Append(d, <<k, v>>)
    ELSE [i \in 1..Len(d) |-> IF d[i][1] = k THEN <<k, v>> ELSE d[i]]
\* defaultdict(int): d[k] += 1
DictIncr(d, k) ==
    IF DictPos(d, k) = {}
    THEN Append(d, <<k, 1>>)
    ELSE [i \in 1..Len(d) |-> IF d[i][1] = k THEN <<k, d[i][2] + 1>> ELSE d[i]]

\* insert the (level, count) item x into the ascending sequence s
RECURSIVE InsertSorted(_, _)
InsertSorted(s, x) ==
    IF s = <<>> THEN <<x>>
    ELSE IF x[1] < Head(s)[1] \/ (x[1] = Head(s)[1] /\ x[2] <= Head(s)[2])
         THEN <<x>> \o s
         ELSE <<Head(s)>> \o InsertSorted(Tail(s), x)
\* sorted(levels.items()): ascending by (level, count)
RECURSIVE Sorted(_)
Sorted(s) == IF s = <<>> THEN <<>> ELSE InsertSorted(Sorted(Tail(s)), Head(s))

(***************************************************************************)
(* parse_json_structure                                                    *)
(***************************************************************************)
\* the keys of object node in the order KeySeq lists them
KeysOf(node) == SelectSeq(KeySeq, LAMBDA k : k \in DOMAIN node.kv)

RECURSIVE traverse(_, _, _), traverseAll(_, _, _)
\* traverse that counts the containers only
traverse_containers(levels, node, level) ==
    IF IsDict(node)
    THEN traverseAll(DictIncr(levels, level),
                     [i \in 1..Len(KeysOf(node)) |-> node.kv[KeysOf(node)[i]]],
                     level + 1)
    ELSE IF IsList(node)
    THEN traverseAll(DictIncr(levels, level), node.items, level + 1)
    ELSE levels

\* traverse(node, level) acting on the dict levels; returns the new levels
traverse(levels, node, level) ==
    IF IsDict(node)
    THEN traverseAll(DictIncr(levels, level),
                     [i \in 1..Len(KeysOf(node)) |-> node.kv[KeysOf(node)[i]]],
                     level + 1)
    ELSE IF IsList(node)
    THEN traverseAll(DictIncr(levels, level), node.items, level + 1)
    ELSE DictIncr(levels, level)
\* the for loop over the children of a container
traverseAll(levels, children, level) ==
    IF children = <<>> THEN levels
    ELSE traverseAll(traverse(levels, Head(children), level),
                     Tail(children), level)

parse_json_structure(json_data) == Sorted(traverse(<<>>, json_data, 1))

(***************************************************************************)
(* compare_json_structures                                                 *)
(***************************************************************************)
\* bool is a subclass of int: True == 1 and False == 0
NumVal(v) == IF v.t = "bool" THEN (IF v.b THEN 1 ELSE 0) ELSE v.n

\* Python's d1 == d2 on parsed JSON values
RECURSIVE PyEq(_, _)
PyEq(d1, d2) ==
    IF d1.t \in {"bool", "num"} /\ d2.t \in {"bool", "num"}
    THEN NumVal(d1) = NumVal(d2)
    ELSE IF d1.t # d2.t THEN FALSE
    ELSE IF IsDict(d1)
    THEN /\ DOMAIN d1.kv = DOMAIN d2.kv
         /\ \A k \in DOMAIN d1.kv : PyEq(d1.kv[k], d2.kv[k])
    ELSE IF IsList(d1)
    THEN /\ Len(d1.items) = Len(d2.items)
         /\ \A i \in 1..Len(d1.items) : PyEq(d1.items[i], d2.items[i])
    ELSE d1 = d2

\* str(index) for index >= 0, one character per decimal digit
Digits == <<"0", "1", "2", "3", "4", "5", "6", "7", "8", "9">>
RECURSIVE IntToStr(_)
IntToStr(n) ==
    IF n < 10 THEN <<Digits[n + 1]>>
    ELSE IntToStr(n \div 10) \o <<Digits[(n % 10) + 1]>>

\* f'{path}/{key}' if path else key
KeyPath(path, key) == IF path # <<>> THEN path \o <<"/">> \o key ELSE key
\* f'{path}[{index}]', index counted from 0
IndexPath(path, index) == path \o <<"[">> \o IntToStr(index) \o <<"]">>

\* what the code stores on the side that lacks the key / the element
KeyNotFound == JStr("Key not found")
ElementNotFound == JStr("Element not found")

\* one assignment detailed_differences[path] = {'body1': .., 'body2': ..};
\* absent names the side that lacks the key or the element ("" when both
\* sides have a value there)
Write(path, b1, b2, absent) ==
    [path |-> path, body1 |-> b1, body2 |-> b2, absent |-> absent]

\* the orders in which the set keys may be iterated.  The code builds a
\* fresh set for every pair of objects; its iteration order depends on the
\* hashes of the keys and on the order in which they were inserted, so every
\* permutation is possible and two sets with the same members need not
\* agree.
KeyOrders(keys) ==
    {o \in [1..Cardinality(keys) -> keys] :
        \A i, j \in 1..Cardinality(keys) : i # j => o[i] # o[j]}

\* every sequence made of a member of as followed by a member of bs
Concat(as, bs) == UNION {{x \o y : y \in bs} : x \in as}

RECURSIVE find_differences(_, _, _), DictLoop(_, _, _, _), ListLoop(_, _, _, _)
\* find_differences with the test d1 != d2 of its last branch left out
find_differences_else(d1, d2, path) ==
    IF IsDict(d1) /\ IsDict(d2)
    THEN UNION {DictLoop(d1, d2, path, keys)
                   : keys \in KeyOrders((DOMAIN d1.kv) \cup (DOMAIN d2.kv))}
    ELSE IF IsList(d1) /\ IsList(d2)
    THEN ListLoop(d1, d2, path, 0)
    ELSE {<<Write(path, d1, d2, "")>>}

\* find_differences(d1, d2, path): the sequences of assignments to
\* detailed_differences it may perform, each in the order of execution; one
\* sequence for each way of iterating the sets of keys it builds
find_differences(d1, d2, path) ==
    IF IsDict(d1) /\ IsDict(d2)
    THEN UNION {DictLoop(d1, d2, path, keys)
                   : keys \in KeyOrders((DOMAIN d1.kv) \cup (DOMAIN d2.kv))}
    ELSE IF IsList(d1) /\ IsList(d2)
    THEN ListLoop(d1, d2, path, 0)
    ELSE IF ~PyEq(d1, d2)
    THEN {<<Write(path, d1, d2, "")>>}
    ELSE {<<>>}
\* for key in keys, the set being iterated in the order keys
DictLoop(d1, d2, path, keys) ==
    IF keys = <<>> THEN {<<>>}
    ELSE LET key == Head(keys)
             new_path == KeyPath(path, key)
             this ==
                 IF key \in DOMAIN d1.kv /\ key \in DOMAIN d2.kv
                 THEN find_differences(d1.kv[key], d2.kv[key], new_path)
                 ELSE IF key \in DOMAIN d1.kv
                 THEN {<<Write(new_path, d1.kv[key], KeyNotFound, "body2")>>}
                 ELSE {<<Write(new_path, KeyNotFound, d2.kv[key], "body1")>>}
         IN  Concat(this, DictLoop(d1, d2, path, Tail(keys)))
\* for index in range(max(len1, len2)), from index on
ListLoop(d1, d2, path, index) ==
    LET len1 == Len(d1.items)
        len2 == Len(d2.items)
    IN  IF index >= (IF len1 >= len2 THEN len1 ELSE len2) THEN {<<>>}
        ELSE LET new_path == IndexPath(path, index)
                 this ==
                     IF index < len1 /\ index < len2
                     THEN find_differences(d1.items[index + 1],
                                           d2.items[index + 1], new_path)
                     ELSE IF index < len1
                     THEN {<<Write(new_path, d1.items[index + 1],
                                   ElementNotFound, "body2")>>}
                     ELSE {<<Write(new_path, ElementNotFound,
                                   d2.items[index + 1], "body1")>>}
             IN  Concat(this, ListLoop(d1, d2, path, index + 1))

\* the dict detailed_differences after the assignments ws, starting from d
RECURSIVE ApplyWrites(_, _)
ApplyWrites(d, ws) ==
    IF ws = <<>> THEN d
    ELSE ApplyWrites(DictSet(d, Head(ws).path,
                             [body1 |-> Head(ws).body1,
                              body2 |-> Head(ws).body2]),
                     Tail(ws))

\* the runs of compare_json_structures(json_d1, json_d2): the assignments
\* made and the dict returned, one run for each way of iterating the sets
CompareRuns(json_d1, json_d2) ==
    {[writes |-> ws, differences |-> ApplyWrites(<<>>, ws)]
        : ws \in find_differences(json_d1, json_d2, <<>>)}

\* the dicts compare_json_structures(json_d1, json_d2) may return
compare_json_structures(json_d1, json_d2) ==
    {run.differences : run \in CompareRuns(json_d1, json_d2)}

(***************************************************************************)
(* Inputs of the differ.                                                   *)
(***************************************************************************)
RECURSIVE Variants(_), VariantLists(_), VariantMaps(_, _)
\* the Documents got from d by dropping keys and trailing elements and by
\* replacing subtrees by one-node Documents
Variants(d) ==
    DocsOfSize(1)
    \cup (IF IsDict(d)
          THEN {JObj(f) : f \in VariantMaps(d, KeysOf(d))}
          ELSE IF IsList(d)
          THEN UNION {{JArr(l) : l \in VariantLists(SubSeq(d.items, 1, n))}
                         : n \in 0..Len(d.items)}
          ELSE {})
\* the sequences whose i-th element is a variant of items[i]
VariantLists(items) ==
    IF items = <<>> THEN {<<>>}
    ELSE LET rests == VariantLists(Tail(items))
         IN  UNION {{<<v>> \o rest : rest \in rests} : v \in Variants(Head(items))}
\* the mappings on subsets of keys that map k to a variant of d.kv[k]
VariantMaps(d, keys) ==
    IF keys = <<>> THEN {EmptyMap}
    ELSE LET rests == VariantMaps(d, Tail(keys))
             k == Head(keys)
         IN  rests \cup
             UNION {{(k :> v) @@ rest : rest \in rests} : v \in Variants(d.kv[k])}

(***************************************************************************)
(* summarize_comparison                                                    *)
(***************************************************************************)
\* the outcome of a call: a returned value or a raised exception
Return(v) == [t |-> "return", value |-> v]
Raise(e) == [t |-> "raise", exc |-> e]

\* sum(count for _, count in structure)
RECURSIVE SumCounts(_)
SumCounts(structure) ==
    IF structure = <<>> THEN 0
    ELSE Head(structure)[2] + SumCounts(Tail(structure))

\* max(level for level, _ in structure), structure not empty
RECURSIVE MaxLevelOf(_)
MaxLevelOf(structure) ==
    IF Len(structure) = 1 THEN Head(structure)[1]
    ELSE LET m == MaxLevelOf(Tail(structure))
         IN  IF Head(structure)[1] >= m THEN Head(structure)[1] ELSE m

\* next((count for l, count in structure if l == level), 0)
RECURSIVE NextCount(_, _)
NextCount(structure, level) ==
    IF structure = <<>> THEN 0
    ELSE IF Head(structure)[1] = level THEN Head(structure)[2]
    ELSE NextCount(Tail(structure), level)

\* DetailRow with the difference taken the other way round
DetailRow_reversed(s1, s2, level) ==
    [level |-> level,
     body1 |-> NextCount(s1, level),
     body2 |-> NextCount(s2, level),
     difference |-> NextCount(s2, level) - NextCount(s1, level)]

\* the dict appended to summary["detailed_comparison"] for level
DetailRow(s1, s2, level) ==
    [level |-> level,
     body1 |-> NextCount(s1, level),
     body2 |-> NextCount(s2, level),
     difference |-> NextCount(s1, level) - NextCount(s2, level)]

\* summarize_comparison with max(..., default=0) for both sequences
summarize_comparison_default(s1, s2, diffs) ==
    LET m1 == IF s1 = <<>> THEN 0 ELSE MaxLevelOf(s1)
        m2 == IF s2 = <<>> THEN 0 ELSE MaxLevelOf(s2)
        max_level == IF m1 >= m2 THEN m1 ELSE m2
    IN  Return([total_nodes |-> [body1 |-> SumCounts(s1),
                                 body2 |-> SumCounts(s2)],
                detailed_comparison |->
                    [level \in 1..max_level |-> DetailRow(s1, s2, level)],
                differences |-> diffs])

summarize_comparison(s1, s2, diffs) ==
    IF s1 = <<>> \/ s2 = <<>>
    THEN Raise("ValueError")
    ELSE LET m1 == MaxLevelOf(s1)
             m2 == MaxLevelOf(s2)
             max_level == IF m1 >= m2 THEN m1 ELSE m2
         IN  Return([total_nodes |-> [body1 |-> SumCounts(s1),
                                      body2 |-> SumCounts(s2)],
                     detailed_comparison |->
                         [level \in 1..max_level |-> DetailRow(s1, s2, level)],
                     differences |-> diffs])

(***************************************************************************)
(* read_json_from_file, print_comparison_summary and main                  *)
(***************************************************************************)
\* what a path may name: no file, a file that cannot be read, a file whose
\* content is not JSON, a file holding the Document doc
Missing == [t |-> "missing"]
Unreadable == [t |-> "unreadable"]
Malformed == [t |-> "malformed"]
Holding(doc) == [t |-> "json", doc |-> doc]

Error(msg) == [level |-> "ERROR", msg |-> msg]
Info(msg) == [level |-> "INFO", msg |-> msg]

\* read_json_from_file(file_path): the outcome and the lines it logs
read_json_from_file(file) ==
    IF file = Missing
    THEN [out |-> Return(None), log |-> <<Error("Error reading file")>>]
    ELSE IF file = Unreadable
    THEN [out |-> Return(None), log |-> <<Error("IO error reading file")>>]
    ELSE IF file = Malformed
    THEN [out |-> Raise("JSONError"), log |-> <<>>]
    ELSE [out |-> Return(file.doc), log |-> <<>>]

\* bool(v) of Python
Truthy(v) ==
    CASE v.t = "None" -> FALSE
      [] v.t = "bool" -> v.b
      [] v.t = "num" -> v.n # 0
      [] v.t = "str" -> v.s # ""
      [] v.t = "obj" -> DOMAIN v.kv # {}
      [] v.t = "arr" -> v.items # <<>>
      [] OTHER -> TRUE

\* the lines print_comparison_summary(summary) logs
print_comparison_summary(sm) ==
    <<Info("Comparison Summary:"), Info("Total Nodes"),
      Info("Detailed Comparison:")>>
    \o [i \in 1..Len(sm.detailed_comparison) |-> Info("Level")]
    \o (IF sm.differences # <<>>
        THEN <<Info("Differences:")>>
             \o [i \in 1..(3 * Len(sm.differences)) |->
                    Info(<<"Path", "body1", "body2">>[((i - 1) % 3) + 1])]
        ELSE <<>>)

\* the timing lines at the end of main; locals is the set of the timing
\* names bound so far
TimingNames == <<"read", "parse", "compare", "summarize">>
TimingMsg(i) ==
    <<"Reading JSON files", "Parsing JSON structures",
      "Comparing JSON structures", "Summarizing comparison">>[i]
RECURSIVE TimingLines(_, _)
TimingLines(locals, i) ==
    IF i > Len(TimingNames)
    THEN [out |-> Return(None), log |-> <<Info("Total duration")>>]
    ELSE IF TimingNames[i] \notin locals
    THEN [out |-> Raise("UnboundLocalError"), log |-> <<>>]
    ELSE LET rest == TimingLines(locals, i + 1)
         IN  [out |-> rest.out, log |-> <<Info(TimingMsg(i))>> \o rest.log]

\* the states main may leave behind for the files f1 and f2, one for each
\* run of the differ
MainRun(f1, f2) ==
    LET r1 == read_json_from_file(f1)
        r2 == read_json_from_file(f2)
        blank == [json_data1 |-> Unbound, json_data2 |-> Unbound,
                  structure1 |-> Unbound, structure2 |-> Unbound,
                  differences |-> Unbound, writes |-> Unbound,
                  summary |-> Unbound, log |-> <<>>, out |-> Unbound]
    IN  IF r1.out.t = "raise"
        THEN {[blank EXCEPT !.log = r1.log, !.out = r1.out]}
        ELSE IF r2.out.t = "raise"
        THEN {[blank EXCEPT !.json_data1 = r1.out.value,
                            !.log = r1.log \o r2.log, !.out = r2.out]}
        ELSE
        LET d1 == r1.out.value
            d2 == r2.out.value
            read == [blank EXCEPT !.json_data1 = d1, !.json_data2 = d2,
                                  !.log = r1.log \o r2.log]
        IN  IF Truthy(d1) /\ Truthy(d2)
            THEN LET s1 == parse_json_structure(d1)
                     s2 == parse_json_structure(d2)
                     after(cmp) ==
                         LET sm == summarize_comparison(s1, s2, cmp.differences)
                             done == [read EXCEPT
                                        !.structure1 = s1, !.structure2 = s2,
                                        !.differences = cmp.differences,
                                        !.writes = cmp.writes]
                         IN  IF sm.t = "raise"
                             THEN [done EXCEPT !.out = sm]
                             ELSE LET tl == TimingLines({"read", "parse",
                                                "compare", "summarize"}, 1)
                                  IN  [done EXCEPT
                                         !.summary = sm.value,
                                         !.log = @ \o print_comparison_summary(sm.value)
                                                   \o <<Info("Timing Details:")>>
                                                   \o tl.log,
                                         !.out = tl.out]
                 IN  {after(cmp) : cmp \in CompareRuns(d1, d2)}
            ELSE LET tl == TimingLines({"read"}, 1)
                 IN  {[read EXCEPT
                         !.log = @ \o <<Error("One or both JSON files could not be read."),
                                        Info("Timing Details:")>>
                                   \o tl.log,
                         !.out = tl.out]}

(***************************************************************************)
(* Inputs.                                                                 *)
(***************************************************************************)
RECURSIVE AscSeq(_, _)
\* the items (l, c[l]) for l in L, by ascending l
AscSeq(L, c) ==
    IF L = {} THEN <<>>
    ELSE LET m == CHOOSE x \in L : \A y \in L : x <= y
         IN  <<<<m, c[m]>>>> \o AscSeq(L \ {m}, c)
\* level sequences as sorted(levels.items()) builds them: ascending distinct
\* levels, positive counts; the empty sequence included
LevelSeqs ==
    UNION {{AscSeq(L, c) : c \in [L -> 1..MaxCount]} : L \in SUBSET (1..MaxLevel)}
\* differences mappings handed to the summarizer
SomeDiffs ==
    {<<>>, <<<<<<"a">>, [body1 |-> JNum(1), body2 |-> KeyNotFound]>>>>}

\* Documents a file may hold: the small ones and the falsy ones
FileDocs ==
    DocsUpTo(MaxSmallNodes) \cup {None, JBool(FALSE), JNum(0), JStr("")}
Files == {Missing, Unreadable, Malformed} \cup {Holding(d) : d \in FileDocs}

(***************************************************************************)
(* Specifications: each draws the arguments of one function, then calls it.*)
(***************************************************************************)
InitParse ==
    /\ pc = "start"
    /\ json_data1 \in Docs
    /\ file1 = Unbound /\ file2 = Unbound /\ json_data2 = Unbound
    /\ structure1 = Unbound /\ structure2 = Unbound /\ differences = Unbound
    /\ writes = Unbound /\ summary = Unbound /\ log = <<>> /\ outcome = Unbound

ParseJsonStructure ==
    /\ pc = "start"
    /\ json_data2 = Unbound /\ file1 = Unbound /\ structure2 = Unbound
    /\ structure1' = parse_json_structure(json_data1)
    /\ pc' = "done"
    /\ outcome' = Return(structure1')
    /\ UNCHANGED <<file1, file2, json_data1, json_data2, structure2,
                   differences, writes, summary, log>>

SpecParse == InitParse /\ [][ParseJsonStructure]_vars

\* the differ on a pair of Documents
InitDiff ==
    /\ pc = "start"
    /\ \/ /\ json_data1 \in DocsUpTo(MaxSmallNodes)
          /\ json_data2 \in DocsUpTo(MaxSmallNodes)
       \/ /\ json_data1 \in Docs
          /\ json_data2 \in Variants(json_data1)
       \/ /\ json_data2 \in Docs
          /\ json_data1 \in Variants(json_data2)
    /\ file1 = Unbound /\ file2 = Unbound
    /\ structure1 = Unbound /\ structure2 = Unbound /\ differences = Unbound
    /\ writes = Unbound /\ summary = Unbound /\ log = <<>> /\ outcome = Unbound

\* the differ on a Document and itself
InitSame ==
    /\ pc = "start"
    /\ json_data1 \in Docs
    /\ json_data2 = json_data1
    /\ file1 = Unbound /\ file2 = Unbound
    /\ structure1 = Unbound /\ structure2 = Unbound /\ differences = Unbound
    /\ writes = Unbound /\ summary = Unbound /\ log = <<>> /\ outcome = Unbound

CompareJsonStructures ==
    /\ pc = "start"
    /\ json_data2 # Unbound /\ file1 = Unbound
    /\ \E run \in CompareRuns(json_data1, json_data2) :
          /\ writes' = run.writes
          /\ differences' = run.differences
    /\ pc' = "done"
    /\ outcome' = Return(differences')
    /\ UNCHANGED <<file1, file2, json_data1, json_data2, structure1,
                   structure2, summary, log>>

SpecDiff == InitDiff /\ [][CompareJsonStructures]_vars
SpecSame == InitSame /\ [][CompareJsonStructures]_vars

InitSum ==
    /\ pc = "start"
    /\ structure1 \in LevelSeqs
    /\ structure2 \in LevelSeqs
    /\ differences \in SomeDiffs
    /\ file1 = Unbound /\ file2 = Unbound
    /\ json_data1 = Unbound /\ json_data2 = Unbound
    /\ writes = Unbound /\ summary = Unbound /\ log = <<>> /\ outcome = Unbound

SummarizeComparison ==
    /\ pc = "start"
    /\ json_data1 = Unbound /\ file1 = Unbound
    /\ outcome' = summarize_comparison(structure1, structure2, differences)
    /\ summary' = IF outcome'.t = "return" THEN outcome'.value ELSE Unbound
    /\ pc' = "done"
    /\ UNCHANGED <<file1, file2, json_data1, json_data2, structure1,
                   structure2, differences, writes, log>>

SpecSum == InitSum /\ [][SummarizeComparison]_vars

InitMain ==
    /\ pc = "start"
    /\ file1 \in Files
    /\ file2 \in Files
    /\ json_data1 = Unbound /\ json_data2 = Unbound
    /\ structure1 = Unbound /\ structure2 = Unbound /\ differences = Unbound
    /\ writes = Unbound /\ summary = Unbound /\ log = <<>> /\ outcome = Unbound

Main ==
    /\ pc = "start"
    /\ file1 # Unbound
    /\ \E run \in MainRun(file1, file2) :
          /\ json_data1' = run.json_data1
          /\ json_data2' = run.json_data2
          /\ structure1' = run.structure1
          /\ structure2' = run.structure2
          /\ differences' = run.differences
          /\ writes' = run.writes
          /\ summary' = run.summary
          /\ log' = run.log
          /\ outcome' = run.out
    /\ pc' = "done"
    /\ UNCHANGED <<file1, file2>>

SpecMain == InitMain /\ [][Main]_vars

(***************************************************************************)
(* Properties.                                                             *)
(***************************************************************************)
\* the children of a node, left to right
Children(d) ==
    IF IsDict(d) THEN [i \in 1..Len(KeysOf(d)) |-> d.kv[KeysOf(d)[i]]]
    ELSE IF IsList(d) THEN d.items
    ELSE <<>>

RECURSIVE NodesAt(_, _), NodesAtAll(_, _)
\* the number of nodes of d at depth k, the root being at depth 1
NodesAt(d, k) == IF k = 1 THEN 1 ELSE NodesAtAll(Children(d), k - 1)
NodesAtAll(ds, k) ==
    IF ds = <<>> THEN 0 ELSE NodesAt(Head(ds), k) + NodesAtAll(Tail(ds), k)

\* no generated Document is deeper than it has nodes
DepthRange == 1..(MaxNodes + 1)

\* C1: comparing a Document with itself records no path: the returned
\* mapping is empty.
C1_SelfDiffEmpty ==
    (pc = "done" /\ json_data1 = json_data2) => differences = <<>>

\* a Document nested three levels deep was compared with itself
C1_Witness ==
    /\ pc = "done"
    /\ json_data1 = json_data2
    /\ NodesAt(json_data1, 3) > 0
    /\ differences = <<>>

\* C5: parse_json_structure returns one (depth, count) item for each depth
\* that has a node, by ascending depth, count being the number of nodes of
\* any kind at that depth; depths are >= 1, counts > 0, and the first item
\* is (1, 1).
C5_LevelCounts ==
    pc = "done" =>
        LET s == structure1
        IN  /\ \A i, j \in 1..Len(s) : i < j => s[i][1] < s[j][1]
            /\ {s[i][1] : i \in 1..Len(s)}
                   = {k \in DepthRange : NodesAt(json_data1, k) > 0}
            /\ \A i \in 1..Len(s) :
                  /\ s[i][2] = NodesAt(json_data1, s[i][1])
                  /\ s[i][1] >= 1
                  /\ s[i][2] > 0
            /\ Len(s) >= 1
            /\ s[1] = <<1, 1>>

\* a Document with an empty container and a scalar side by side at depth 2
\* and a node at depth 3 was counted
C5_Witness ==
    /\ pc = "done"
    /\ Len(structure1) >= 3
    /\ structure1[2][2] >= 2
    /\ \E i \in 1..Len(Children(json_data1)) :
          Children(json_data1)[i] \in {JObj(EmptyMap), JArr(<<>>)}

\* the count a level sequence holds for level l, 0 when it holds none
CountAt(s, l) ==
    IF \E i \in 1..Len(s) : s[i][1] = l
    THEN s[CHOOSE i \in 1..Len(s) : s[i][1] = l][2]
    ELSE 0
\* the sum of the counts of the first n items of s
RECURSIVE TotalOf(_, _)
TotalOf(s, n) == IF n = 0 THEN 0 ELSE TotalOf(s, n - 1) + s[n][2]
\* the largest depth held by either level sequence
LargestLevel(s1, s2) ==
    LET ls == {s1[i][1] : i \in 1..Len(s1)} \cup {s2[i][1] : i \in 1..Len(s2)}
    IN  CHOOSE m \in ls : \A l \in ls : l <= m

\* C6: for two non-empty level sequences summarize_comparison returns one
\* row per level 1..max_level, ascending, each holding both counts (0 when
\* the level is absent) and count1 - count2; total_nodes holds the sums of
\* the counts; the differences mapping is passed through unchanged.
C6_SummaryRows ==
    (pc = "done" /\ json_data1 = Unbound /\ structure1 # <<>>
                 /\ structure2 # <<>>) =>
        /\ outcome.t = "return"
        /\ summary = outcome.value
        /\ LET rows == summary.detailed_comparison
               top == LargestLevel(structure1, structure2)
           IN  /\ Len(rows) = top
               /\ \A l \in 1..top :
                     /\ rows[l].level = l
                     /\ rows[l].body1 = CountAt(structure1, l)
                     /\ rows[l].body2 = CountAt(structure2, l)
                     /\ rows[l].difference
                            = CountAt(structure1, l) - CountAt(structure2, l)
        /\ summary.total_nodes
               = [body1 |-> TotalOf(structure1, Len(structure1)),
                  body2 |-> TotalOf(structure2, Len(structure2))]
        /\ summary.differences = differences

\* a summary was returned in which one document lacks a level the other
\* has, with a negative difference on that row
C6_Witness ==
    /\ pc = "done"
    /\ json_data1 = Unbound
    /\ structure1 # <<>> /\ structure2 # <<>>
    /\ outcome.t = "return"
    /\ \E l \in 1..Len(summary.detailed_comparison) :
          /\ summary.detailed_comparison[l].body1 = 0
          /\ summary.detailed_comparison[l].body2 > 0
          /\ summary.detailed_comparison[l].difference < 0
    /\ summary.differences # <<>>

\* C8: summarize_comparison raises, and returns no summary, whenever either
\* level sequence is empty.
C8_EmptyStructureRaises ==
    (pc = "done" /\ json_data1 = Unbound
                 /\ (structure1 = <<>> \/ structure2 = <<>>)) =>
        /\ outcome.t = "raise"
        /\ summary = Unbound

\* the summarizer was called with only the second sequence empty, and raised
C8_Witness ==
    /\ pc = "done"
    /\ json_data1 = Unbound
    /\ structure1 # <<>>
    /\ structure2 = <<>>
    /\ outcome = Raise("ValueError")

\* two nodes have the same shape: both objects with the same keys, or both
\* arrays of the same length, with children of the same shape, or both
\* scalars
RECURSIVE SameShape(_, _)
SameShape(d1, d2) ==
    IF IsDict(d1) \/ IsDict(d2)
    THEN /\ IsDict(d1) /\ IsDict(d2)
         /\ DOMAIN d1.kv = DOMAIN d2.kv
         /\ \A k \in DOMAIN d1.kv : SameShape(d1.kv[k], d2.kv[k])
    ELSE IF IsList(d1) \/ IsList(d2)
    THEN /\ IsList(d1) /\ IsList(d2)
         /\ Len(d1.items) = Len(d2.items)
         /\ \A i \in 1..Len(d1.items) : SameShape(d1.items[i], d2.items[i])
    ELSE TRUE

\* the structural path that extends path by an object key / an array index:
\* keys are joined with "/", indexes are appended as "[index]"
JoinKey(path, atRoot, key) == IF atRoot THEN key ELSE path \o <<"/">> \o key
JoinIndex(path, index) == path \o <<"[">> \o IntToStr(index) \o <<"]">>

RECURSIVE LeafDiffs(_, _, _, _)
\* for same-shaped d1 and d2: the scalar leaves at which they hold different
\* JSON values, each with its structural path and the two leaves
LeafDiffs(d1, d2, path, atRoot) ==
    IF IsDict(d1)
    THEN UNION {LeafDiffs(d1.kv[k], d2.kv[k], JoinKey(path, atRoot, k), FALSE)
                   : k \in DOMAIN d1.kv}
    ELSE IF IsList(d1)
    THEN UNION {LeafDiffs(d1.items[i], d2.items[i], JoinIndex(path, i - 1), FALSE)
                   : i \in 1..Len(d1.items)}
    ELSE IF d1 # d2
    THEN {<<path, [body1 |-> d1, body2 |-> d2]>>}
    ELSE {}

\* the items of a dict, as a set
Items(d) == {d[i] : i \in 1..Len(d)}

\* C2: when the two Documents have the same shape and differ at exactly one
\* scalar leaf, the returned mapping has exactly one entry, keyed by the
\* structural path of that leaf and holding the two leaves.
C2_OneLeafOneEntry ==
    (pc = "done" /\ SameShape(json_data1, json_data2)
        /\ Cardinality(LeafDiffs(json_data1, json_data2, <<>>, TRUE)) = 1) =>
        /\ Len(differences) = 1
        /\ Items(differences) = LeafDiffs(json_data1, json_data2, <<>>, TRUE)

\* the tags of the values a JSON document is parsed into
IsJsonValue(v) == v.t \in {"None", "bool", "num", "str", "obj", "arr"}

\* C3: in every entry recorded for a key or index present on one side only,
\* the side that lacks it holds a value that no JSON value equals.
C3_SentinelDistinct ==
    pc = "done" =>
        \A i \in 1..Len(writes) :
            /\ writes[i].absent = "body1" => ~IsJsonValue(writes[i].body1)
            /\ writes[i].absent = "body2" => ~IsJsonValue(writes[i].body2)

\* C4: the paths and the body1/body2 pairs of the returned mapping are the
\* same for every order in which the keys are iterated.
C4_OrderIndependent ==
    pc = "done" =>
        \A other \in compare_json_structures(json_data1, json_data2) :
            Items(other) = Items(differences)

\* C9: the assignments to detailed_differences go to pairwise distinct
\* paths, so the mapping has as many entries as assignments were made.
C9_DistinctPaths ==
    pc = "done" =>
        /\ \A i, j \in 1..Len(writes) :
              i # j => writes[i].path # writes[j].path
        /\ Len(differences) = Len(writes)

BothLoaded == file1.t = "json" /\ file2.t = "json"
CouldNotBeRead == Error("One or both JSON files could not be read.")
InLog(line) == \E i \in 1..Len(log) : log[i] = line

\* C7: when a document did not load, main reports that the comparison was
\* not performed and returns normally, having run neither the counter, the
\* differ nor the summarizer.
C7_NotPerformedEndsNormally ==
    (pc = "done" /\ file1 # Unbound /\ ~BothLoaded) =>
        /\ outcome = Return(None)
        /\ InLog(CouldNotBeRead)
        /\ structure1 = Unbound /\ structure2 = Unbound
        /\ differences = Unbound /\ summary = Unbound

\* C10: when both documents loaded, main runs the counter, the differ and
\* the summarizer, prints the summary, and does not report that a file
\* could not be read.
C10_LoadedIsCompared ==
    (pc = "done" /\ file1 # Unbound /\ BothLoaded) =>
        /\ structure1 # Unbound /\ structure2 # Unbound
        /\ differences # Unbound /\ summary # Unbound
        /\ InLog(Info("Comparison Summary:"))
        /\ ~InLog(CouldNotBeRead)

====
